---- MODULE Spec2Model ----
(***************************************************************************)
(* Position Evaluation Service of explain-that-move:                       *)
(*   app/engine.py  _engine (lru_cache singleton), evaluate_fen            *)
(*   app/main.py    eval_fen (GET /eval, cache-aside over redis)           *)
(*   app/utils.py   cache_key                                              *)
(*                                                                         *)
(* Spec      the service: concurrent /eval requests on one asyncio event   *)
(*           loop, worker threads running engine.analyse, the engine       *)
(*           processes, the lru_cache memo and the redis cache.            *)
(* SpecNorm  the pure part of evaluate_fen (score extraction and PV        *)
(*           rendering) applied to raw engine results drawn from bounded   *)
(*           sets.                                                         *)
(***************************************************************************)
EXTENDS Integers, Sequences, FiniteSets, TLC

VARIABLES
    pc,        \* [Reqs -> position of the eval_fen coroutine]
    inp,       \* [Reqs -> [fen, depth]] the query parameters
    cur,       \* [Reqs -> current_engine of the evaluate_fen call (0: none)]
    thr,       \* [Reqs -> what the worker thread's analyse call ended with]
    res,       \* [Reqs -> what evaluate_fen returned: score, pv, returning line]
    resp,      \* [Reqs -> the HTTP response]
    hist,      \* [Reqs -> history of the request (observation only)]
    cache,     \* redis: [key -> stored string, <<>> when absent]
    redisUp,   \* app.state.redis is not None
    memo,      \* lru_cache of _engine(): 0 empty, p > 0 the handle of process p
    proc,      \* [process -> "none" | "running" | "exited"]
    loopBusy,  \* request whose coroutine blocks the event loop (0: loop free)
    stored,    \* [input -> the payload last stored for it, NoPayload once expired]
    nPc,       \* SpecNorm: "in" before, "out" after the normalisation
    nIn,       \* SpecNorm: [fen, raw] the input
    nOut       \* SpecNorm: what evaluate_fen returns for nIn

vars == <<pc, inp, cur, thr, res, resp, hist, cache, redisUp, memo, proc,
          loopBusy, stored, nPc, nIn, nOut>>

svcVars == <<pc, inp, cur, thr, res, resp, hist, cache, redisUp, memo, proc,
             loopBusy, stored>>

normVars == <<nPc, nIn, nOut>>

-----------------------------------------------------------------------------
(* Bounds of the model *)

NumReqs == 2        \* request slots of Spec and SpecEng (a slot is reused after
                    \* its response)
SeqReqs == 1        \* request slots of SpecSeq
SvcProcs == 1       \* engine processes that can be started in a run of Spec
EngProcs == 3       \* engine processes that can be started in a run of SpecEng
MaxMate == 2        \* largest mate distance drawn for a raw result
MaxKeyDepth == 12   \* largest depth drawn for a cache key in SpecKey

(* Program constants *)

MateBase == 10000   \* engine.py:124, 143
PvCap == 20         \* engine.py:165
DepthMin == 1       \* main.py:80  ge=1
DepthMax == 30      \* main.py:80  le=30

Reqs == DOMAIN pc

Abs(n) == IF n < 0 THEN -n ELSE n

-----------------------------------------------------------------------------
(* chess: positions, moves *)

WHITE == "white"
BLACK == "black"

FenWhite == "fenW"      \* a valid FEN, White to move
FenBlack == "fenB"      \* a valid FEN, Black to move
FenBad == "fenX"        \* not a FEN: chess.Board(fen) raises ValueError

Fens == {FenWhite, FenBlack, FenBad}

ValidFen(fen) == fen \in {FenWhite, FenBlack}

Turn(fen) == IF fen = FenBlack THEN BLACK ELSE WHITE

\* A move of a PV: its UCI and SAN notation, the replay position it is legal
\* in, the position it leads to, and whether board.san()/push() raise on it.
Mv(uci, san, from, to, fault) ==
    [uci |-> uci, san |-> san, from |-> from, to |-> to, fault |-> fault]

MoveW1 == Mv("e2e4", "e4", FenWhite, "posW1", FALSE)
MoveW2 == Mv("e7e5", "e5", "posW1", "posW2", FALSE)
MoveW3 == Mv("g1f3", "Nf3", "posW2", "posW3", FALSE)
MoveB1 == Mv("e7e5", "e5", FenBlack, "posB1", FALSE)
MoveB2 == Mv("g1f3", "Nf3", "posB1", "posB2", FALSE)
MoveF == Mv("e1g1", "O-O", FenWhite, "posW1", TRUE)
MoveBack == Mv("e4e2", "e2", "posW1", FenWhite, FALSE)

\* IsLegal with every move taken for legal
IsLegal_Always(board, m) == TRUE

\* board.is_legal(move) on the replay board
IsLegal(board, m) == m.from = board

\* board.push(move)
Push(board, m) == m.to

-----------------------------------------------------------------------------
(* chess.engine: Score (Cp, Mate, MateGiven) and PovScore *)

Cp(v) == [kind |-> "cp", v |-> v]
Mate(v) == [kind |-> "mate", v |-> v]
MateGiven == [kind |-> "mategiven", v |-> 0]
\* a score object that is neither a mate nor carries centipawns
ScoreNone == [kind |-> "none", v |-> 0]

\* Score.__neg__
Neg(s) ==
    CASE s.kind = "cp" -> Cp(-s.v)
      [] s.kind = "mate" -> IF s.v = 0 THEN MateGiven ELSE Mate(-s.v)
      [] s.kind = "mategiven" -> Mate(0)
      [] OTHER -> s

\* Pov with the side to move ignored
Pov_Relative(rel, turn, color) == rel

\* PovScore(relative, turn).pov(color)
Pov(rel, turn, color) == IF turn = color THEN rel ELSE Neg(rel)

IsMate(s) == s.kind \in {"mate", "mategiven"}
MateOf(s) == s.v

-----------------------------------------------------------------------------
(* Raw engine results.  analysis_result is what SimpleEngine.analyse hands   *)
(* back: fmt is its Python shape, the other fields are those of the info     *)
(* dict: "score" (a PovScore whose relative part is rel and whose turn is    *)
(* the turn of the analysed board), a direct "mate" field, and "pv".         *)

NoMateField == [kind |-> "absent", v |-> 0]
IntMateField(n) == [kind |-> "int", v |-> n]
StrMateField == [kind |-> "other", v |-> 0]

Raw(fmt, hasScore, rel, mate, pv) ==
    [fmt |-> fmt, hasScore |-> hasScore, rel |-> rel, mate |-> mate, pv |-> pv]

-----------------------------------------------------------------------------
(* evaluate_fen, after the analyse call has returned: engine.py 98-194 *)

ErrorTags ==
    {"ERROR:INVALID_FEN", "ERROR:ENGINE_UNAVAILABLE", "ERROR:ANALYSIS_FORMAT",
     "ERROR:ENGINE_TERMINATED", "ERROR:ANALYSIS_FAILED", "ERROR:SCORE_CALCULATION",
     "ERROR:MATE_FIELD_INVALID_TYPE", "ERROR:MATE_FIELD_PROCESSING",
     "ERROR:NO_SCORE_OR_MATE", "ERROR:PV_EMPTY", "ERROR:PV_CONVERSION_EMPTY"}

\* engine.py 99-105: the info dict is the first element of a non-empty list,
\* or the result itself when it is a dict
FormatOk(raw) == raw.fmt \in {"list", "dict"}

\* engine.py 124 and 143
ScoreFromMate(mate_in) ==
    IF mate_in > 0 THEN MateBase - Abs(mate_in) ELSE -MateBase + Abs(mate_in)

\* engine.py 142: chess.engine.Mate(mate_val_direct).pov(chess.WHITE).mate().
\* Mate is a chess.engine.Score; pov() is a method of PovScore only, so the
\* attribute lookup raises AttributeError, which line 148 catches.
DirectMateScore(m) == [raised |-> TRUE, score |-> 0]

\* engine.py 116-153: the score, or the error tag and the returning line;
\* err = "" when a score was extracted
ScorePart(raw, fen) ==
    IF raw.hasScore
    THEN LET pov_score == Pov(raw.rel, Turn(fen), WHITE) IN
         IF IsMate(pov_score)
         THEN [err |-> "", score |-> ScoreFromMate(MateOf(pov_score)), line |-> 0]
         ELSE IF pov_score.kind = "cp"
              THEN [err |-> "", score |-> pov_score.v, line |-> 0]
              ELSE [err |-> "ERROR:SCORE_CALCULATION", score |-> 0, line |-> 134]
    ELSE IF raw.mate.kind # "absent"
         THEN IF raw.mate.kind = "int"
              THEN LET d == DirectMateScore(raw.mate.v) IN
                   IF d.raised
                   THEN [err |-> "ERROR:MATE_FIELD_PROCESSING", score |-> 0, line |-> 150]
                   ELSE [err |-> "", score |-> d.score, line |-> 0]
              ELSE [err |-> "ERROR:MATE_FIELD_INVALID_TYPE", score |-> 0, line |-> 147]
         ELSE [err |-> "ERROR:NO_SCORE_OR_MATE", score |-> 0, line |-> 153]

\* engine.py 165: pv_moves_from_engine[:20]
Take(s, n) == SubSeq(s, 1, IF Len(s) < n THEN Len(s) ELSE n)

\* engine.py 179
IllegalEntry(m) == m.uci \o " (illegal on replay)"

\* engine.py 185-189: the except branch appends the UCI notation and the loop
\* goes on with the next move (the break is commented out)
BreakAfterFault == FALSE

\* engine.py 174-189: the loop over pv_to_convert from index i on, on the
\* replay board; the list of entries appended to san_parts
RECURSIVE SanParts(_, _, _)
SanParts(board, pv, i) ==
    IF i > Len(pv) THEN <<>>
    ELSE LET m == pv[i] IN
         IF ~IsLegal(board, m) THEN <<IllegalEntry(m)>>
         ELSE IF m.fault
              THEN IF BreakAfterFault THEN <<m.uci>>
                   ELSE <<m.uci>> \o SanParts(board, pv, i + 1)
              ELSE <<m.san>> \o SanParts(Push(board, m), pv, i + 1)

\* " ".join(san_parts)
RECURSIVE Join(_)
Join(parts) ==
    IF Len(parts) = 0 THEN ""
    ELSE IF Len(parts) = 1 THEN parts[1]
    ELSE parts[1] \o " " \o Join(Tail(parts))

\* What evaluate_fen returns: (score, pv), and the line of the return statement
Ret(score, pv, line) == [score |-> score, pv |-> pv, ret |-> line]

\* PvEmptyResult with the error tag forgotten
PvEmptyResult_NoTag(score) == Ret(score, "", 163)

\* engine.py 163
PvEmptyResult(score) == Ret(score, "ERROR:PV_EMPTY", 163)

\* engine.py 156-194
PvPart(raw, fen, score) ==
    IF Len(raw.pv) = 0 THEN PvEmptyResult(score)
    ELSE LET san_parts == SanParts(fen, Take(raw.pv, PvCap), 1) IN
         Ret(score,
             IF Len(san_parts) > 0 THEN Join(san_parts) ELSE "ERROR:PV_CONVERSION_EMPTY",
             194)

\* engine.py 98-194: what evaluate_fen returns for an analyse call that returned
Normalize(raw, fen) ==
    IF ~FormatOk(raw) THEN Ret(0, "ERROR:ANALYSIS_FORMAT", 105)
    ELSE LET s == ScorePart(raw, fen) IN
         IF s.err # "" THEN Ret(0, s.err, s.line)
         ELSE PvPart(raw, fen, s.score)

-----------------------------------------------------------------------------
(* SpecNorm: the normalisation applied to raw results drawn from bounded sets *)

LongPv == [i \in 1..(PvCap + 2) |-> IF i % 2 = 1 THEN MoveW1 ELSE MoveBack]

NormPvs ==
    {<<>>, <<MoveW1>>, <<MoveW1, MoveW2>>, <<MoveW1, MoveW2, MoveW3>>,
     <<MoveW1, MoveW3, MoveW2>>, <<MoveF, MoveW1>>, <<MoveW1, MoveF, MoveW2>>,
     <<MoveB1, MoveB2>>, LongPv}

NormScores ==
    {Cp(-35), Cp(0), Cp(120), MateGiven, ScoreNone}
        \cup {Mate(n) : n \in (-MaxMate)..MaxMate}

NormMateFields == {NoMateField, StrMateField} \cup {IntMateField(n) : n \in {-1, 1, MaxMate}}

NormRaws ==
    {Raw(f, TRUE, s, NoMateField, p) :
        f \in {"list", "dict", "emptylist", "other"}, s \in NormScores, p \in NormPvs}
    \cup
    {Raw(f, FALSE, Cp(0), m, p) :
        f \in {"list", "dict"}, m \in NormMateFields, p \in NormPvs}

NoOut == Ret(0, "", 0)
NoIn == [fen |-> FenWhite, raw |-> Raw("other", FALSE, Cp(0), NoMateField, <<>>)]

-----------------------------------------------------------------------------
(* app/utils.py cache_key, json.dumps / json.loads of the payload *)

\* hashlib.sha256(material).hexdigest()[:32]: a digest that tells apart
\* every two materials the model draws
Sha256Hex32(material) == "h(" \o material \o ")"

\* cache_key with the depth left out of the key
cache_key_NoDepth(fen, depth) == "sf:" \o Sha256Hex32(fen)

\* cache_key with the position left out of the key
cache_key_NoFen(fen, depth) == "sf:" \o ToString(depth)

\* utils.py 7-8
cache_key(fen, depth) ==
    "sf:" \o ToString(depth) \o ":" \o Sha256Hex32(fen \o "-" \o ToString(depth))

\* main.py 116: payload = {"score_cp": score, "pv": pv}
Payload(result) == [score_cp |-> result.score, pv |-> result.pv]

NoPayload == [score_cp |-> 0, pv |-> ""]

\* main.py 120: json.dumps(payload), the members in the payload's order
Dumps(payload) == <<"score_cp", payload.score_cp, "pv", payload.pv>>

\* main.py 105: json.loads(cached_result): member name -> member value
Loads(text) ==
    [name \in {text[i] : i \in {j \in 1..Len(text) : j % 2 = 1}} |->
        text[(CHOOSE i \in 1..Len(text) : i % 2 = 1 /\ text[i] = name) + 1]]

\* IsHit with the test never succeeding
IsHit_Never(cached_result) == FALSE

\* main.py 103: if cached_result:
IsHit(cached_result) == cached_result # <<>>

\* OnReadFault with the exception left to propagate
OnReadFault_Raise == "raise"

\* main.py 110-111: a failing redis.get is logged and the request goes on
OnReadFault == "miss"

\* OnWriteFault with the exception left to propagate
OnWriteFault_Raise == "raise"

\* main.py 122-123: a failing redis.set is logged and the request goes on
OnWriteFault == "ignore"

\* AnalyseOffloaded with analyse called on the event loop's thread
AnalyseOffloaded_Inline == FALSE

\* engine.py 86-96: analyse runs in a worker thread (asyncio.to_thread or
\* loop.run_in_executor), the coroutine awaits it
AnalyseOffloaded == TRUE

\* MemoAfterFailure with the failure memoized
MemoAfterFailure_Cached(m) == -1

\* functools.lru_cache stores nothing for a call that raised (engine.py 32, 46-52)
MemoAfterFailure(m) == m

\* main.py 80: depth: int = Query(20, ge=1, le=30)
DepthOk(depth) == depth >= DepthMin /\ depth <= DepthMax

-----------------------------------------------------------------------------------------------------------------------------------------------------
(* The requests the model draws *)

In(fen, depth) == [fen |-> fen, depth |-> depth]

ValidInputs == {In(FenWhite, 18), In(FenBlack, 18)}
Inputs == ValidInputs \cup {In(FenBad, 18), In(FenWhite, DepthMax + 1)}
EngInputs == {In(FenWhite, 18)}
NoInput == In(FenBad, 0)

KeyOf(i) == cache_key(i.fen, i.depth)
Keys == {KeyOf(i) : i \in ValidInputs}

\* First moves of a PV in the position
FirstMoves(fen) == IF fen = FenWhite THEN <<MoveW1, MoveW2>> ELSE <<MoveB1, MoveB2>>

\* What the engine answers for a position in Spec and SpecEng
SvcRaws(fen) ==
    {Raw("list", TRUE, Cp(35), NoMateField, FirstMoves(fen)),
     Raw("list", TRUE, Mate(1), NoMateField, Take(FirstMoves(fen), 1))}

\* What the engine answers for a position in SpecSeq
SeqRaws(fen) ==
    SvcRaws(fen) \cup
    {Raw("list", TRUE, Cp(35), NoMateField, <<>>)}

NoRaw == Raw("other", FALSE, Cp(0), NoMateField, <<>>)

\* thr: how the analyse call in the worker thread ended
Returned(raw) == [kind |-> "raw", raw |-> raw]
Terminated == [kind |-> "terminated", raw |-> NoRaw]   \* EngineTerminatedError
Failed == [kind |-> "failed", raw |-> NoRaw]           \* any other exception
NoThr == [kind |-> "none", raw |-> NoRaw]

NoResp == [status |-> 0]

\* hist: what the request has done so far.  rd: what redis.get did ("entry":
\* returned a stored entry, "empty": returned None, "fault": raised); wr: what
\* redis.set did; evals, analyses: calls of evaluate_fen and of analyse; exp:
\* the payload last stored for the input when it was read; overlap: an
\* analysis for another key was in progress at the read.
NoHist ==
    [rd |-> "none", wr |-> "none", evals |-> 0, analyses |-> 0, overlap |-> FALSE,
     exp |-> NoPayload]

-----------------------------------------------------------------------------
(* The service *)

\* No response is on its way out.  A finished request keeps its record for
\* one step, in which the response is sent (Respond); it takes no part in
\* anything else.
Quiet == \A q \in Reqs : pc[q] # "done"

InitWith(nreqs, nprocs, withRedis) ==
    /\ pc = [r \in 1..nreqs |-> "idle"]
    /\ inp = [r \in 1..nreqs |-> NoInput]
    /\ cur = [r \in 1..nreqs |-> 0]
    /\ thr = [r \in 1..nreqs |-> NoThr]
    /\ res = [r \in 1..nreqs |-> NoOut]
    /\ resp = [r \in 1..nreqs |-> NoResp]
    /\ hist = [r \in 1..nreqs |-> NoHist]
    /\ cache = [k \in Keys |-> <<>>]
    /\ redisUp \in withRedis
    /\ memo = 0
    /\ proc = [p \in 1..nprocs |-> "none"]
    /\ loopBusy = 0
    /\ stored = [i \in ValidInputs |-> NoPayload]
    /\ nPc = "off"
    /\ nIn = NoIn
    /\ nOut = NoOut

Init == InitWith(NumReqs, SvcProcs, BOOLEAN)

\* main.py 92-94 and 115-120: evaluate_fen has returned result to eval_fen,
\* which answers at once without redis and otherwise awaits redis.set
AfterEval(r, result, h) ==
    /\ res' = [res EXCEPT ![r] = result]
    /\ hist' = [hist EXCEPT ![r] = h]
    /\ IF ~redisUp
       THEN /\ pc' = [pc EXCEPT ![r] = "done"]
            /\ resp' = [resp EXCEPT ![r] =
                          [status |-> 200, cached |-> FALSE, error |-> "redis_unavailable",
                           score_cp |-> result.score, pv |-> result.pv]]
       ELSE /\ pc' = [pc EXCEPT ![r] = "storing"]
            /\ UNCHANGED resp

\* engine.py 84-96: the analyse call is handed to a worker thread
StartAnalyse(r, p, h) ==
    /\ cur' = [cur EXCEPT ![r] = p]
    /\ pc' = [pc EXCEPT ![r] = "analysing"]
    /\ hist' = [hist EXCEPT ![r] = [h EXCEPT !.analyses = @ + 1]]
    /\ loopBusy' = IF AnalyseOffloaded THEN 0 ELSE r
    /\ UNCHANGED <<res, resp>>

\* engine.py 55-96 with _engine() of 32-52: evaluate_fen from its call to its
\* first await (or to its return when the engine cannot be had)
Evaluate(r, fen, h0) ==
    LET h == [h0 EXCEPT !.evals = @ + 1] IN
    IF ~ValidFen(fen)
    THEN /\ AfterEval(r, Ret(0, "ERROR:INVALID_FEN", 64), h)
         /\ UNCHANGED <<cur, memo, proc, loopBusy>>
    ELSE IF memo > 0
    THEN \* lru_cache hit: the memoized handle, whatever became of its process
         /\ StartAnalyse(r, memo, h)
         /\ UNCHANGED <<memo, proc>>
    ELSE IF memo < 0
    THEN \* a memoized failure would be raised again without a start
         /\ AfterEval(r, Ret(0, "ERROR:ENGINE_UNAVAILABLE", 74), h)
         /\ UNCHANGED <<cur, memo, proc, loopBusy>>
    ELSE \E ok \in BOOLEAN :
           IF ok /\ \E p \in DOMAIN proc : proc[p] = "none"
           THEN \* popen_uci succeeds: a new process, its handle memoized
                LET p == CHOOSE q \in DOMAIN proc :
                            /\ proc[q] = "none"
                            /\ \A q2 \in DOMAIN proc : proc[q2] = "none" => q <= q2 IN
                /\ proc' = [proc EXCEPT ![p] = "running"]
                /\ memo' = p
                /\ StartAnalyse(r, p, h)
           ELSE \* popen_uci raises; _engine re-raises; evaluate_fen 72-74
                /\ memo' = MemoAfterFailure(memo)
                /\ AfterEval(r, Ret(0, "ERROR:ENGINE_UNAVAILABLE", 74), h)
                /\ UNCHANGED <<cur, proc, loopBusy>>

\* main.py 77-98: a request arrives; FastAPI checks depth, eval_fen checks the
\* FEN, then runs up to its first await
Request(r, i) ==
    /\ Quiet
    /\ pc[r] = "idle"
    /\ loopBusy = 0
    /\ inp' = [inp EXCEPT ![r] = i]
    /\ IF ~DepthOk(i.depth)
       THEN /\ pc' = [pc EXCEPT ![r] = "done"]
            /\ resp' = [resp EXCEPT ![r] = [status |-> 422]]
            /\ UNCHANGED <<cur, res, hist, memo, proc, loopBusy>>
       ELSE IF ~ValidFen(i.fen)
       THEN /\ pc' = [pc EXCEPT ![r] = "done"]
            /\ resp' = [resp EXCEPT ![r] = [status |-> 400]]
            /\ UNCHANGED <<cur, res, hist, memo, proc, loopBusy>>
       ELSE IF ~redisUp
       THEN Evaluate(r, i.fen, hist[r])
       ELSE /\ pc' = [pc EXCEPT ![r] = "probing"]
            /\ UNCHANGED <<cur, res, resp, hist, memo, proc, loopBusy>>
    /\ UNCHANGED <<thr, cache, redisUp, stored, nPc, nIn, nOut>>

\* main.py 102-109: redis.get returns a stored entry
CacheHit(r) ==
    /\ Quiet
    /\ pc[r] = "probing"
    /\ loopBusy = 0
    /\ LET cached_result == cache[KeyOf(inp[r])]
           data == Loads(cached_result)
           h == [hist[r] EXCEPT
                   !.rd = "entry",
                   !.exp = stored[inp[r]],
                   !.overlap = \E o \in Reqs : /\ o # r
                                               /\ pc[o] = "analysing"
                                               /\ inp[o] # inp[r]] IN
      /\ cached_result # <<>>
      /\ IF IsHit(cached_result)
         THEN /\ pc' = [pc EXCEPT ![r] = "done"]
              /\ resp' = [resp EXCEPT ![r] =
                            [name \in {"status", "cached"} \cup DOMAIN data |->
                               IF name \in DOMAIN data THEN data[name]
                               ELSE IF name = "status" THEN 200 ELSE TRUE]]
              /\ hist' = [hist EXCEPT ![r] = h]
              /\ UNCHANGED <<cur, res, memo, proc, loopBusy>>
         ELSE Evaluate(r, inp[r].fen, h)
    /\ UNCHANGED <<inp, thr, cache, redisUp, stored, nPc, nIn, nOut>>

\* main.py 102-109, 114-115: redis.get returns None
CacheMiss(r) ==
    /\ Quiet
    /\ pc[r] = "probing"
    /\ loopBusy = 0
    /\ cache[KeyOf(inp[r])] = <<>>
    /\ Evaluate(r, inp[r].fen, [hist[r] EXCEPT !.rd = "empty"])
    /\ UNCHANGED <<inp, thr, cache, redisUp, stored, nPc, nIn, nOut>>

\* main.py 110-115: redis.get raises
CacheReadFault(r) ==
    /\ Quiet
    /\ pc[r] = "probing"
    /\ loopBusy = 0
    /\ IF OnReadFault = "miss"
       THEN Evaluate(r, inp[r].fen, [hist[r] EXCEPT !.rd = "fault"])
       ELSE /\ pc' = [pc EXCEPT ![r] = "done"]
            /\ resp' = [resp EXCEPT ![r] = [status |-> 500]]
            /\ hist' = [hist EXCEPT ![r] = [@ EXCEPT !.rd = "fault"]]
            /\ UNCHANGED <<cur, res, memo, proc, loopBusy>>
    /\ UNCHANGED <<inp, thr, cache, redisUp, stored, nPc, nIn, nOut>>

\* The worker thread: SimpleEngine.analyse returns a result or raises an
\* exception other than EngineTerminatedError (engine.py 87-96, 111)
AnalyseFinish(r, o) ==
    /\ Quiet
    /\ pc[r] = "analysing"
    /\ proc[cur[r]] = "running"
    /\ pc' = [pc EXCEPT ![r] = "analysed"]
    /\ thr' = [thr EXCEPT ![r] = o]
    /\ UNCHANGED <<inp, cur, res, resp, hist, cache, redisUp, memo, proc, loopBusy,
                   stored, nPc, nIn, nOut>>

\* The worker thread: the process has exited, SimpleEngine.analyse raises
\* EngineTerminatedError (engine.py 87-96, 107)
AnalyseTerminated(r) ==
    /\ Quiet
    /\ pc[r] = "analysing"
    /\ proc[cur[r]] = "exited"
    /\ pc' = [pc EXCEPT ![r] = "analysed"]
    /\ thr' = [thr EXCEPT ![r] = Terminated]
    /\ UNCHANGED <<inp, cur, res, resp, hist, cache, redisUp, memo, proc, loopBusy,
                   stored, nPc, nIn, nOut>>

\* engine.py 98-194: the coroutine resumes with the thread's result
Resume(r) ==
    /\ Quiet
    /\ pc[r] = "analysed"
    /\ loopBusy \in {0, r}
    /\ loopBusy' = 0
    /\ cur' = [cur EXCEPT ![r] = 0]
    /\ thr' = [thr EXCEPT ![r] = NoThr]
    /\ IF thr[r].kind = "terminated"
       THEN \* 107-110: _engine.cache_clear()
            /\ memo' = 0
            /\ AfterEval(r, Ret(0, "ERROR:ENGINE_TERMINATED", 110), hist[r])
       ELSE IF thr[r].kind = "failed"
       THEN \* 111-113
            /\ memo' = memo
            /\ AfterEval(r, Ret(0, "ERROR:ANALYSIS_FAILED", 113), hist[r])
       ELSE /\ memo' = memo
            /\ AfterEval(r, Normalize(thr[r].raw, inp[r].fen), hist[r])
    /\ UNCHANGED <<inp, cache, redisUp, proc, stored, nPc, nIn, nOut>>

\* main.py 118-125: redis.set returns or raises; the response
CacheStore(r, ok) ==
    /\ Quiet
    /\ pc[r] = "storing"
    /\ loopBusy = 0
    /\ pc' = [pc EXCEPT ![r] = "done"]
    /\ LET payload == Payload(res[r]) IN
       /\ IF ok
          THEN /\ cache' = [cache EXCEPT ![KeyOf(inp[r])] = Dumps(payload)]
               /\ stored' = [stored EXCEPT ![inp[r]] = payload]
          ELSE UNCHANGED <<cache, stored>>
       /\ hist' = [hist EXCEPT ![r] = [@ EXCEPT !.wr = IF ok THEN "ok" ELSE "fault"]]
       /\ resp' = [resp EXCEPT ![r] =
                     IF ok \/ OnWriteFault = "ignore"
                     THEN [status |-> 200, cached |-> FALSE,
                           score_cp |-> payload.score_cp, pv |-> payload.pv]
                     ELSE [status |-> 500]]
    /\ UNCHANGED <<inp, cur, thr, res, redisUp, memo, proc, loopBusy, nPc, nIn, nOut>>

\* The engine process exits (crash, kill), during a call or between calls
EngineExit(p) ==
    /\ Quiet
    /\ proc[p] = "running"
    /\ proc' = [proc EXCEPT ![p] = "exited"]
    /\ UNCHANGED <<pc, inp, cur, thr, res, resp, hist, cache, redisUp, memo,
                   loopBusy, stored, nPc, nIn, nOut>>

\* main.py 120: ex=86_400, the entry expires
Expire(i) ==
    /\ Quiet
    /\ cache[KeyOf(i)] # <<>>
    /\ cache' = [cache EXCEPT ![KeyOf(i)] = <<>>]
    /\ stored' = [stored EXCEPT ![i] = NoPayload]
    /\ UNCHANGED <<pc, inp, cur, thr, res, resp, hist, redisUp, memo, proc,
                   loopBusy, nPc, nIn, nOut>>

\* main.py 94, 108, 125 (or the HTTPException of 88): the response is sent and
\* the slot is free for the next request
Respond(r) ==
    /\ pc[r] = "done"
    /\ pc' = [pc EXCEPT ![r] = "idle"]
    /\ inp' = [inp EXCEPT ![r] = NoInput]
    /\ res' = [res EXCEPT ![r] = NoOut]
    /\ resp' = [resp EXCEPT ![r] = NoResp]
    /\ hist' = [hist EXCEPT ![r] = NoHist]
    /\ UNCHANGED <<cur, thr, cache, redisUp, memo, proc, loopBusy, stored,
                   nPc, nIn, nOut>>

\* The steps of the service for requests drawn from inputs and engine answers
\* drawn from raws[fen]
Step(inputs, raws) ==
    \/ \E r \in Reqs, i \in inputs : Request(r, i)
    \/ \E r \in Reqs : CacheHit(r)
    \/ \E r \in Reqs : CacheMiss(r)
    \/ \E r \in Reqs : CacheReadFault(r)
    \/ \E r \in Reqs : \E w \in raws[inp[r].fen] : AnalyseFinish(r, Returned(w))
    \/ \E r \in Reqs : AnalyseFinish(r, Failed)
    \/ \E r \in Reqs : AnalyseTerminated(r)
    \/ \E r \in Reqs : Resume(r)
    \/ \E r \in Reqs, ok \in BOOLEAN : CacheStore(r, ok)
    \/ \E p \in DOMAIN proc : EngineExit(p)
    \/ \E i \in inputs \cap ValidInputs : Expire(i)
    \/ \E r \in Reqs : Respond(r)

Next == Step(Inputs, [fen \in Fens |-> SvcRaws(fen)])

Spec == Init /\ [][Next]_vars

-----------------------------------------------------------------------------
(* SpecEng: the same service, requests for one position, more engine        *)
(* processes                                                                *)

InitEng == InitWith(NumReqs, EngProcs, {TRUE})

NextEng == Step(EngInputs, [fen \in Fens |-> SvcRaws(fen)])

SpecEng == InitEng /\ [][NextEng]_vars

-----------------------------------------------------------------------------
(* SpecSeq: the same service, one request at a time, more engine answers    *)

InitSeq == InitWith(SeqReqs, SvcProcs, BOOLEAN)

NextSeq == Step(Inputs, [fen \in Fens |-> SeqRaws(fen)])

SpecSeq == InitSeq /\ [][NextSeq]_vars

-----
(* SpecNorm *)

InitNorm ==
    /\ pc = [r \in 1..SeqReqs |-> "idle"]
    /\ inp = [r \in 1..SeqReqs |-> NoInput]
    /\ cur = [r \in 1..SeqReqs |-> 0]
    /\ thr = [r \in 1..SeqReqs |-> NoThr]
    /\ res = [r \in 1..SeqReqs |-> NoOut]
    /\ resp = [r \in 1..SeqReqs |-> NoResp]
    /\ hist = [r \in 1..SeqReqs |-> NoHist]
    /\ cache = [k \in Keys |-> <<>>]
    /\ redisUp = FALSE
    /\ memo = 0
    /\ proc = [p \in 1..SvcProcs |-> "none"]
    /\ loopBusy = 0
    /\ stored = [i \in ValidInputs |-> NoPayload]
    /\ nPc = "in"
    /\ nIn \in [fen : {FenWhite, FenBlack}, raw : NormRaws]
    /\ nOut = NoOut

\* engine.py 98-194 on the drawn raw result
NormStep ==
    /\ nPc = "in"
    /\ nPc' = "out"
    /\ nOut' = Normalize(nIn.raw, nIn.fen)
    /\ UNCHANGED <<nIn, pc, inp, cur, thr, res, resp, hist, cache, redisUp, memo,
                   proc, loopBusy, stored>>

NextNorm == NormStep

SpecNorm == InitNorm /\ [][NextNorm]_vars

-----------------------------------------------------------------------------
(* SpecLive: the service for requests for one position, where every awaited *)
(* operation of a request (redis.get, the analyse call in its thread,       *)
(* redis.set) returns or raises and the event loop resumes the coroutine    *)

InitLive == InitWith(SeqReqs, SvcProcs, BOOLEAN)

NextLive == Step(EngInputs, [fen \in Fens |-> SvcRaws(fen)])

\* The steps of request r after its arrival
ReqStep(r) ==
    \/ CacheHit(r)
    \/ CacheMiss(r)
    \/ CacheReadFault(r)
    \/ \E w \in SvcRaws(inp[r].fen) : AnalyseFinish(r, Returned(w))
    \/ AnalyseFinish(r, Failed)
    \/ AnalyseTerminated(r)
    \/ Resume(r)
    \/ \E ok \in BOOLEAN : CacheStore(r, ok)
    \/ Respond(r)

SpecLive ==
    InitLive /\ [][NextLive]_vars /\ \A r \in 1..SeqReqs : SF_vars(ReqStep(r))

-----------------------------------------------------------------------------
(* SpecKey: cache_key applied to a position and two depths drawn from       *)
(* bounded sets; nIn holds the arguments, nOut the two keys                 *)

KeyDepths == 1..MaxKeyDepth

InitKey ==
    /\ pc = [r \in 1..SeqReqs |-> "idle"]
    /\ inp = [r \in 1..SeqReqs |-> NoInput]
    /\ cur = [r \in 1..SeqReqs |-> 0]
    /\ thr = [r \in 1..SeqReqs |-> NoThr]
    /\ res = [r \in 1..SeqReqs |-> NoOut]
    /\ resp = [r \in 1..SeqReqs |-> NoResp]
    /\ hist = [r \in 1..SeqReqs |-> NoHist]
    /\ cache = [k \in Keys |-> <<>>]
    /\ redisUp = FALSE
    /\ memo = 0
    /\ proc = [p \in 1..SvcProcs |-> "none"]
    /\ loopBusy = 0
    /\ stored = [i \in ValidInputs |-> NoPayload]
    /\ nPc = "keyin"
    /\ nIn \in [fen : Fens, d1 : KeyDepths, d2 : KeyDepths]
    /\ nOut = NoOut

\* utils.py 3-8, called once for (fen, d1) and once for (fen, d2)
KeyStep ==
    /\ nPc = "keyin"
    /\ nPc' = "keyout"
    /\ nOut' = [k1 |-> cache_key(nIn.fen, nIn.d1), k2 |-> cache_key(nIn.fen, nIn.d2)]
    /\ UNCHANGED <<nIn, pc, inp, cur, thr, res, resp, hist, cache, redisUp, memo,
                   proc, loopBusy, stored>>

NextKey == KeyStep

SpecKey == InitKey /\ [][NextKey]_vars

-----------------------------------------------------------------------------
(* Claims *)

\* C1 (SpecEng): no two analyse calls run against the same engine handle at
\* the same time.
C1_Serialized ==
    \A a \in Reqs, b \in Reqs :
        (a # b /\ pc[a] = "analysing" /\ pc[b] = "analysing") => cur[a] # cur[b]

\* C2 (SpecEng): at most one engine process has been started and has not exited.
C2_OneLiveProcess ==
    Cardinality({p \in DOMAIN proc : proc[p] = "running"}) <= 1

\* C3 (SpecSeq): a request whose cache read returned a stored entry is answered
\* with that entry and cached=true, has not called evaluate_fen or analyse, holds
\* no engine handle and has written nothing to the cache.
C3_HitServedFromCache ==
    \A r \in Reqs :
        hist[r].rd = "entry" =>
            /\ pc[r] = "done"
            /\ resp[r].status = 200
            /\ resp[r].cached = TRUE
            /\ resp[r].score_cp = hist[r].exp.score_cp
            /\ resp[r].pv = hist[r].exp.pv
            /\ hist[r].evals = 0
            /\ hist[r].analyses = 0
            /\ hist[r].wr = "none"
            /\ cur[r] = 0

C3_Witness ==
    \E r \in Reqs : pc[r] = "done" /\ hist[r].rd = "entry" /\ resp[r].cached = TRUE

IsErrorPayload(text) == Loads(text).pv \in ErrorTags

\* C4 as claimed (Spec): what was stored for (fen, depth) is what every later
\* request gets until the entry expires: no step replaces a live entry holding a
\* computed evaluation by a different computed evaluation.
C4_OriginalKept ==
    [][\A i \in ValidInputs :
          (/\ cache[KeyOf(i)] # <<>>
           /\ cache'[KeyOf(i)] # <<>>
           /\ ~IsErrorPayload(cache[KeyOf(i)])
           /\ ~IsErrorPayload(cache'[KeyOf(i)]))
          => cache'[KeyOf(i)] = cache[KeyOf(i)]]_vars

\* C4 amended (Spec): as long as the entry of (fen, depth) has not expired, a
\* read of its key is a hit and decodes to the payload last stored for that
\* (fen, depth), and a request that read an entry answers cached=true with
\* exactly that score_cp and pv.
C4_RoundTrip ==
    /\ \A i \in ValidInputs :
          stored[i] # NoPayload =>
              /\ IsHit(cache[KeyOf(i)])
              /\ Loads(cache[KeyOf(i)]) = stored[i]
    /\ \A r \in Reqs :
          (pc[r] = "done" /\ hist[r].rd = "entry") =>
              /\ resp[r].status = 200
              /\ resp[r].cached = TRUE
              /\ hist[r].exp # NoPayload
              /\ resp[r].score_cp = hist[r].exp.score_cp
              /\ resp[r].pv = hist[r].exp.pv

C4_Witness ==
    \E r \in Reqs :
        /\ pc[r] = "done"
        /\ hist[r].rd = "entry"
        /\ hist[r].exp # NoPayload
        /\ resp[r].pv \notin ErrorTags

\* C5 (SpecSeq): no response is a server error; a request whose cache read
\* raised has gone on to evaluate_fen as on a miss; a finished request whose
\* read or write raised answers 200 with cached=false and the score_cp and pv
\* evaluate_fen returned, after attempting the write.
C5_CacheFaultsAbsorbed ==
    \A r \in Reqs :
        /\ pc[r] = "done" => resp[r].status # 500
        /\ hist[r].rd = "fault" =>
              /\ hist[r].evals = 1
              /\ pc[r] \in {"analysing", "analysed", "storing", "done"}
        /\ (pc[r] = "done" /\ (hist[r].rd = "fault" \/ hist[r].wr = "fault")) =>
              /\ resp[r].status = 200
              /\ resp[r].cached = FALSE
              /\ resp[r].score_cp = res[r].score
              /\ resp[r].pv = res[r].pv
              /\ hist[r].wr # "none"

C5_Witness ==
    \E r \in Reqs :
        /\ pc[r] = "done"
        /\ hist[r].rd = "fault"
        /\ hist[r].wr = "fault"
        /\ resp[r].status = 200

C7_StartFailure ==
    [][\A r \in Reqs :
          (res'[r].ret = 74 /\ res[r].ret # 74) =>
              /\ res'[r].score = 0
              /\ res'[r].pv = "ERROR:ENGINE_UNAVAILABLE"
              /\ memo' = 0
              /\ pc'[r] \in {"storing", "done"}
              /\ pc'[r] = "done" => resp'[r].status = 200]_vars

\* A failed start was answered and stored, and a later call has started the
\* engine: process 1 runs and was never cleared from the lru_cache, so its
\* start came after the failed one.
C7_Witness ==
    /\ \E i \in ValidInputs : stored[i].pv = "ERROR:ENGINE_UNAVAILABLE"
    /\ \E r \in Reqs : pc[r] = "analysing" /\ cur[r] = 1
    /\ proc[1] = "running"
    /\ memo = 1

\* C8 (SpecEng): a call that acquires the engine is handed the handle of a
\* running process, never the handle of a process that has exited.
C8_FreshHandle ==
    [][\A r \in Reqs :
          (pc[r] # "analysing" /\ pc'[r] = "analysing") =>
              proc'[cur'[r]] = "running"]_vars

\* C9 (Spec): whatever the engine and the other requests are doing, a request
\* can enter, and a request whose key is in the cache can read it and answer.
C9_HitNotBlocked ==
    \A r \in Reqs :
        /\ (Quiet /\ pc[r] = "idle") =>
              ENABLED (\E i \in ValidInputs : Request(r, i))
        /\ (Quiet /\ pc[r] = "probing" /\ cache[KeyOf(inp[r])] # <<>>) =>
              ENABLED CacheHit(r)

C9_Witness ==
    \E r \in Reqs :
        /\ pc[r] = "done"
        /\ hist[r].rd = "entry"
        /\ resp[r].cached = TRUE
        /\ hist[r].overlap
        /\ \E o \in Reqs : o # r /\ pc[o] = "analysing" /\ inp[o] # inp[r]

\* The raw result is a forced mate in N >= 1 moves, as a score or as a direct
\* mate field, relative to the side to move
MateDistance(raw) == IF raw.hasScore THEN raw.rel.v ELSE raw.mate.v

IsForcedMate(raw) ==
    /\ FormatOk(raw)
    /\ IF raw.hasScore THEN raw.rel.kind = "mate" ELSE raw.mate.kind = "int"
    /\ MateDistance(raw) # 0

MateFavoursWhite(raw, fen) ==
    (Turn(fen) = WHITE) = (MateDistance(raw) > 0)

\* C10 (SpecNorm): a forced mate in N >= 1 gives score 10000 - N when it is in
\* White's favour and -10000 + N when it is against White, whichever side is to
\* move.
C10_MateConvention ==
    (nPc = "out" /\ IsForcedMate(nIn.raw)) =>
        nOut.score = IF MateFavoursWhite(nIn.raw, nIn.fen)
                     THEN MateBase - Abs(MateDistance(nIn.raw))
                     ELSE -MateBase + Abs(MateDistance(nIn.raw))

\* The PV the SAN loop converts, and the replay position before its move j when
\* the moves before j were applied
ConvertedPv(raw) == Take(raw.pv, PvCap)

BoardBefore(fen, pv, j) == IF j = 1 THEN fen ELSE pv[j - 1].to

\* Move k is the first move of pv that does not fit the replay position, the
\* moves before it having been rendered and applied
FirstIllegalAt(fen, pv, k) ==
    /\ k \in 1..Len(pv)
    /\ \A j \in 1..(k - 1) : pv[j].from = BoardBefore(fen, pv, j) /\ ~pv[j].fault
    /\ pv[k].from # BoardBefore(fen, pv, k)

\* C11 (SpecNorm): when move k of the converted PV (at most PvCap moves) is the
\* first one that is illegal on the replay board, the returned pv is the SAN of
\* moves 1..k-1 followed by the UCI notation of move k tagged as illegal, and
\* nothing of the moves after k.
C11_IllegalTruncation ==
    (nPc = "out" /\ nOut.ret = 194) =>
        LET pv == ConvertedPv(nIn.raw) IN
        \A k \in 1..Len(pv) :
            FirstIllegalAt(nIn.fen, pv, k) =>
                nOut.pv = Join([j \in 1..k |->
                                  IF j < k THEN pv[j].san
                                  ELSE pv[k].uci \o " (illegal on replay)"])

C11_Witness ==
    /\ nPc = "out"
    /\ nIn.fen = FenWhite
    /\ nIn.raw.pv = <<MoveW1, MoveW3, MoveW2>>
    /\ FirstIllegalAt(nIn.fen, ConvertedPv(nIn.raw), 2)
    /\ nOut.pv = "e4 g1f3 (illegal on replay)"

\* Move k is the first move of pv whose rendering raises, the moves before it
\* having been rendered and applied
FirstFaultAt(fen, pv, k) ==
    /\ k \in 1..Len(pv)
    /\ \A j \in 1..(k - 1) : pv[j].from = BoardBefore(fen, pv, j) /\ ~pv[j].fault
    /\ pv[k].from = BoardBefore(fen, pv, k)
    /\ pv[k].fault

\* C12 (SpecNorm): when rendering move k of the converted PV raises, the
\* returned pv is the SAN of moves 1..k-1 followed by the UCI notation of move
\* k, and nothing of the moves after k.
C12_FaultTruncation ==
    (nPc = "out" /\ nOut.ret = 194) =>
        LET pv == ConvertedPv(nIn.raw) IN
        \A k \in 1..Len(pv) :
            FirstFaultAt(nIn.fen, pv, k) =>
                nOut.pv = Join([j \in 1..k |->
                                  IF j < k THEN pv[j].san ELSE pv[k].uci])

\* The raw result has no score and no mate field but a non-empty PV
ScorelessWithPv(raw) ==
    ~raw.hasScore /\ raw.mate = NoMateField /\ Len(raw.pv) > 0

\* The raw result has a score that can be extracted and an empty PV
ScoredWithoutPv(raw, fen) ==
    raw.hasScore /\ ScorePart(raw, fen).err = "" /\ Len(raw.pv) = 0

\* C13 (SpecNorm): a raw result without score and without mate field but with
\* a non-empty PV has its PV moves rendered into pv, and a raw result with a
\* score and an empty PV has the extracted score as score.
C13_Independent ==
    (nPc = "out" /\ FormatOk(nIn.raw)) =>
        /\ ScorelessWithPv(nIn.raw) =>
              (nOut.pv = Join(SanParts(nIn.fen, ConvertedPv(nIn.raw), 1)))
        /\ ScoredWithoutPv(nIn.raw, nIn.fen) =>
              (nOut.score = ScorePart(nIn.raw, nIn.fen).score)

\* C13, its second half alone
C13_ScoreKept ==
    (nPc = "out" /\ FormatOk(nIn.raw) /\ ScoredWithoutPv(nIn.raw, nIn.fen)) =>
        (nOut.score = ScorePart(nIn.raw, nIn.fen).score /\ nOut.ret = 163)

EngineFaultTags ==
    {"ERROR:ENGINE_UNAVAILABLE", "ERROR:ENGINE_TERMINATED", "ERROR:ANALYSIS_FAILED"}

\* C15 (SpecSeq): a request that comes after a request for the same (fen, depth)
\* ended in an engine-level fault result runs a new analysis: no request is
\* answered from the cache with an engine-level fault result and without a
\* call of evaluate_fen.
C15_SelfHealing ==
    \A r \in Reqs :
        (pc[r] = "done" /\ inp[r] \in ValidInputs /\ hist[r].evals = 0) =>
            resp[r].pv \notin EngineFaultTags

\* C16 (SpecSeq): when the analyse call of a request ended in an exception,
\* EngineTerminatedError or any other, the step in which evaluate_fen handles
\* it leaves the handle the call ran on out of the lru_cache.
C16_FaultDiscardsHandle ==
    [][\A r \in Reqs :
          (/\ pc[r] = "analysed"
           /\ pc'[r] # "analysed"
           /\ thr[r].kind \in {"terminated", "failed"})
          => memo' # cur[r]]_vars

\* The ways of a finished request through eval_fen
HitPath(r) ==
    /\ hist[r].rd = "entry"
    /\ hist[r].evals = 0
    /\ hist[r].analyses = 0
    /\ hist[r].wr = "none"

MissPath(r) ==
    /\ hist[r].rd \in {"empty", "fault"}
    /\ hist[r].evals = 1
    /\ hist[r].analyses <= 1
    /\ hist[r].wr \in {"ok", "fault"}

NoCachePath(r) ==
    /\ ~redisUp
    /\ hist[r].rd = "none"
    /\ hist[r].evals = 1
    /\ hist[r].analyses <= 1
    /\ hist[r].wr = "none"

InFlight(r) == pc[r] \in {"probing", "analysing", "analysed", "storing"}

OnePassSoFar(r) ==
    /\ hist[r].evals <= 1
    /\ hist[r].analyses <= 1
    /\ hist[r].analyses <= hist[r].evals
    /\ hist[r].wr # "none" => (pc[r] = "done" /\ res[r].ret # 0)
    /\ (pc[r] = "done" /\ inp[r] \in ValidInputs) =>
          /\ resp[r].status = 200
          /\ HitPath(r) \/ MissPath(r) \/ NoCachePath(r)

C18_WhitePerspective ==
    (nPc = "out" /\ FormatOk(nIn.raw) /\ nIn.raw.hasScore /\ nIn.raw.rel.kind = "cp") =>
        nOut.score = IF Turn(nIn.fen) = WHITE THEN nIn.raw.rel.v ELSE -nIn.raw.rel.v

C18_Witness ==
    /\ nPc = "out"
    /\ nIn.fen = FenBlack
    /\ nIn.raw.hasScore
    /\ nIn.raw.rel = Cp(120)
    /\ nOut.ret = 194
    /\ nOut.score = -120

\* The payloads of the results a call evaluate_fen(i.fen, i.depth) can return
\* with the engine answers of Spec
PossiblePayloads(i) ==
    {Payload(Normalize(w, i.fen)) : w \in SvcRaws(i.fen)}
        \cup {Payload(Ret(0, t, 0)) : t \in EngineFaultTags}

\* C19 (Spec): what the cache holds under cache_key(fen, depth) is the
\* serialized payload of a result of evaluate_fen for that fen and depth, also
\* after two identical requests both missed and both stored.
C19_EntryOfItsKey ==
    \A i \in ValidInputs :
        cache[KeyOf(i)] # <<>> =>
            /\ Loads(cache[KeyOf(i)]) \in PossiblePayloads(i)
            /\ cache[KeyOf(i)] = Dumps(Loads(cache[KeyOf(i)]))

\* One of two identical requests that both missed has stored its result, the
\* other is about to store a different one
C19_Witness ==
    \E r \in Reqs, o \in Reqs :
        /\ r # o
        /\ inp[r] = inp[o]
        /\ pc[r] = "done"
        /\ hist[r].rd = "empty"
        /\ hist[r].wr = "ok"
        /\ cache[KeyOf(inp[r])] = Dumps(Payload(res[r]))
        /\ pc[o] = "storing"
        /\ hist[o].rd = "empty"
        /\ Payload(res[o]) # Payload(res[r])

\* A mate score relative to the side to move favours the side to move when its
\* distance is positive; with distance 0 the side to move is checkmated
WhiteIsMatingSide(rel, fen) == (Turn(fen) = WHITE) = (rel.v > 0)

\* C20 (SpecNorm): for a raw result whose score is a mate, distance 0
\* included, the returned score is positive when White is the mating side and
\* negative when White is the mated side.
C20_MateSign ==
    (nPc = "out" /\ FormatOk(nIn.raw) /\ nIn.raw.hasScore /\ nIn.raw.rel.kind = "mate") =>
        IF WhiteIsMatingSide(nIn.raw.rel, nIn.fen)
        THEN nOut.score > 0
        ELSE nOut.score < 0

\* C20 for mate distances other than 0
C20_MateSignNonZero ==
    (/\ nPc = "out"
     /\ FormatOk(nIn.raw)
     /\ nIn.raw.hasScore
     /\ nIn.raw.rel.kind = "mate"
     /\ nIn.raw.rel.v # 0) =>
        IF WhiteIsMatingSide(nIn.raw.rel, nIn.fen)
        THEN nOut.score > 0
        ELSE nOut.score < 0

====
